---- MODULE Spec2Model ----
(***************************************************************************)
(* rss-to-kindle: a model of the two pipelines of the repository.          *)
(*                                                                         *)
(*   rss_to_kindle.py  the "window" variant: feeds -> time-window filter   *)
(*                     -> scrape -> sanitize -> digest summary -> EPUB or  *)
(*                     HTML -> SMTP delivery.                              *)
(*   test_local.py     the "dedup" variant: feeds -> dedup by id + 24h     *)
(*                     cutoff -> scrape -> per-article summary -> HTML.    *)
(*                                                                         *)
(* HTML strings are represented by their parse: a forest of nodes.  A node *)
(* is a record [tag, attrs, kids, text]; a text node has tag "#text".      *)
(* str(soup) is Serialize: a sequence of tokens (open tag, text, close     *)
(* tag).  A document built by string concatenation (create_html) is a      *)
(* sequence of tokens too.                                                 *)
(*                                                                         *)
(* Time is in seconds since 2024-01-01T00:00:00Z.                          *)
(***************************************************************************)
EXTENDS Integers, Sequences, FiniteSets, TLC

VARIABLES
    pc,             \* position of the (single-threaded) program
    error,          \* the exception that ended the run ("" while none has)
    html_content,   \* sanitize_html: the input, parsed
    sanitized,      \* sanitize_html: the returned string, as tokens
    now,            \* fetch_new_entries: the clock read at its start
    cutoff_start,   \* fetch_new_entries: start of the window (the cutoff of test_local)
    cutoff_end,     \* fetch_new_entries: end of the window
    feeds,          \* number of URLs read from feeds.txt
    feed_i,         \* index of the feed being processed (0 before the first)
    left,           \* entries of the current feed not yet iterated
    read,           \* entries iterated so far in this run (bounded by MaxTotal)
    cur,            \* the entry being processed, its fields as far as read
    entries,        \* the list fetch_new_entries builds and returns
    net,            \* kinds of network activity performed so far
    env_missing,    \* environment variables the run found unset
    digest_summary, \* get_digest_summary's result
    out_file,       \* the document written: "", "epub" or "html"
    html,           \* create_html's result, as tokens
    msg,            \* send_to_kindle: the MIME message being built
    smtp_log,       \* SMTP operations attempted, in order
    smtp_failed,    \* the SMTP operation that failed ("" while none has)
    sent,           \* messages the SMTP server accepted
    printed,        \* outcome lines printed
    sent_file,      \* test_local: sent_items.json (absent, or the ids it holds)
    sent_items,     \* test_local: the in-memory store of the run
    runs,           \* test_local: runs started so far
    saved,          \* test_local: whether this run reached save_sent_items
    digests         \* test_local: ids of the digest each finished run produced

---------------------------------------------------------------------------
(* Bounds of the model. *)

\* Most nodes (elements and texts) in an input given to sanitize_html.
MaxNodes == 4

---------------------------------------------------------------------------
(* HTML values. *)

TextNode(s) == [tag |-> "#text", attrs |-> {}, kids |-> <<>>, text |-> s]

Elem(t, a, k) == [tag |-> t, attrs |-> a, kids |-> k, text |-> ""]

IsText(n) == n.tag = "#text"

OpenTok(t, a) == [k |-> "open", tag |-> t, attrs |-> a, text |-> ""]

CloseTok(t) == [k |-> "close", tag |-> t, attrs |-> {}, text |-> ""]

TextTok(s) == [k |-> "text", tag |-> "", attrs |-> {}, text |-> s]

\* The concatenation of a sequence of sequences.
RECURSIVE Flatten(_)
Flatten(ss) ==
    IF ss = <<>> THEN <<>> ELSE Head(ss) \o Flatten(Tail(ss))

\* str(soup): the markup of a forest, in document order.
RECURSIVE Serialize(_)
Serialize(forest) ==
    Flatten([i \in 1..Len(forest) |->
        LET n == forest[i] IN
        IF IsText(n) THEN <<TextTok(n.text)>>
        ELSE <<OpenTok(n.tag, n.attrs)>> \o Serialize(n.kids) \o <<CloseTok(n.tag)>>])

---------------------------------------------------------------------------
(* sanitize_html (rss_to_kindle.py). *)

\* The tags removed with their contents.
decomposed_tags == {"script", "style", "svg", "button", "form", "iframe", "noscript"}

allowed_tags ==
    {"p", "h1", "h2", "h3", "h4", "h5", "h6", "ul", "ol", "li", "a", "strong",
     "em", "b", "i", "blockquote", "pre", "code", "br", "hr", "div", "span"}

allowed_attrs == {"href", "src", "alt", "title", "id"}

\* A plausible slip: the listed tags are unwrapped like unknown tags, so that
\* only the tag goes and its contents stay.
RECURSIVE DecomposeKeepsContents(_)
DecomposeKeepsContents(forest) ==
    Flatten([i \in 1..Len(forest) |->
        LET n == forest[i] IN
        IF IsText(n) THEN <<n>>
        ELSE IF n.tag \in decomposed_tags THEN DecomposeKeepsContents(n.kids)
        ELSE <<[n EXCEPT !.kids = DecomposeKeepsContents(n.kids)]>>])

\* for tag in soup([...]): tag.decompose()  -- every listed element, at any
\* depth, leaves the tree together with everything below it.
RECURSIVE Decompose(_)
Decompose(forest) ==
    Flatten([i \in 1..Len(forest) |->
        LET n == forest[i] IN
        IF IsText(n) THEN <<n>>
        ELSE IF n.tag \in decomposed_tags THEN <<>>
        ELSE <<[n EXCEPT !.kids = Decompose(n.kids)]>>])

\* for attr in attrs: if attr not in allowed_attrs: del tag[attr]
StripAttrs(attrs) == {a \in attrs : a[1] \in allowed_attrs}

\* for tag in soup.find_all(True): unwrap a tag that is not allowed (its
\* children take its place, in order), strip the attributes of one that is.
\* find_all has listed every element before the loop starts, so a disallowed
\* element nested in another is unwrapped as well.
RECURSIVE UnwrapAndStrip(_)
UnwrapAndStrip(forest) ==
    Flatten([i \in 1..Len(forest) |->
        LET n == forest[i] IN
        IF IsText(n) THEN <<n>>
        ELSE IF n.tag \notin allowed_tags THEN UnwrapAndStrip(n.kids)
        ELSE <<[n EXCEPT !.attrs = StripAttrs(n.attrs),
                         !.kids = UnwrapAndStrip(n.kids)]>>])

\* sanitize_html(html_content): '' for an empty input, else the markup of the
\* tree after the two passes.
sanitize_html(content) ==
    IF content = <<>> THEN <<>>
    ELSE Serialize(UnwrapAndStrip(Decompose(content)))

---------------------------------------------------------------------------
(* Inputs of sanitize_html: every forest of at most MaxNodes nodes over a   *)
(* few tags of each kind (removed, unwrapped, allowed) and two texts.       *)

InputTexts == {"a", "b"}

\* Tags of the inputs: one that is removed with its contents, one that is
\* unwrapped, one that is allowed.
InputTags == {"form", "section", "div"}

RECURSIVE ForestsOfSize(_)
RECURSIVE TreesOfSize(_)
TreesOfSize(n) ==
    IF n = 0 THEN {}
    ELSE {Elem(t, {}, k) : t \in InputTags, k \in ForestsOfSize(n - 1)}
         \cup (IF n = 1 THEN {TextNode(s) : s \in InputTexts} ELSE {})

ForestsOfSize(n) ==
    IF n = 0 THEN {<<>>}
    ELSE UNION {{<<t>> \o f : t \in TreesOfSize(k), f \in ForestsOfSize(n - k)} : k \in 1..n}

InputForests == UNION {ForestsOfSize(n) : n \in 0..MaxNodes}

---------------------------------------------------------------------------
(* Bounds and inputs of the pipelines. *)

\* Most feed URLs in feeds.txt.
MaxFeeds == 2

\* Most entries one feed serves.
MaxEntries == 2

\* Most entries iterated in one run, over all feeds.
MaxTotal == 2

\* Most entries in a list given to create_html on its own.
MaxHtmlEntries == 2

\* Most runs of test_local.py, one after the other.
MaxRuns == 2

\* timedelta(days=1), in seconds.
Day == 86400

\* hour=2 of now.replace(hour=2, minute=0, second=0, microsecond=0), in seconds.
WindowHour == 7200

\* len(content) > 200 in scrape_article.
MinScrapedLen == 200

\* 2024-01-02T10:00:00Z and 2024-01-02T01:00:00Z.
Nows == {Day + 36000, Day + 3600}

\* Time that may pass between the start of fetch_new_entries and a later
\* reading of the clock.
ClockSkews == {0, 3600}

\* Publish times: 2024-01-01 01:59:00, 02:00:00, 03:00:00; 2024-01-02
\* 01:59:59, 02:00:00.
PubTimes == {7140, 7200, 10800, Day + 7199, Day + 7200}

Links == {"u1"}

\* A feed-provided id; NoValue where the feed gives none.
NoValue == "none"

Guids == {NoValue, "g1"}

\* A string of markup: its length in characters and its parse.  Absent is a
\* field the feed does not give, Empty is ''.
Str(n, forest) == [len |-> n, html |-> forest]

Absent == Str(-1, <<>>)

Empty == Str(0, <<>>)

ScrapedDoc ==
    <<Elem("p", {<<"id", "article1">>, <<"class", "lead">>}, <<TextNode("scraped")>>)>>

SummaryDoc ==
    <<Elem("p", {}, <<TextNode("summary")>>), Elem("script", {}, <<TextNode("js")>>)>>

DescriptionDoc == <<Elem("section", {}, <<TextNode("description")>>)>>

ContentDoc == <<Elem("ul", {}, <<Elem("li", {}, <<TextNode("content")>>)>>)>>

\* What requests.get and the page give scrape_article.
Pages ==
    {[status |-> s, len |-> 0, html |-> <<>>] : s \in {"error", "no_container", "no_paragraphs"}}
    \cup {[status |-> "ok", len |-> n, html |-> ScrapedDoc] : n \in {MinScrapedLen, MinScrapedLen + 1}}

NoPage == [status |-> "", len |-> 0, html |-> <<>>]

\* An entry none of whose fields has been read.
NoEntry ==
    [pub |-> 0, has_pub |-> FALSE, selected |-> FALSE, link |-> NoValue, id |-> NoValue,
     page |-> NoPage, summary |-> Absent, description |-> Absent, content0 |-> Absent,
     scraped |-> Absent, full_content |-> <<>>]

NoMsg == [attached |-> FALSE, file |-> ""]

\* sent_items.json: whether it exists and the ids (the keys) it holds.  The
\* values, timestamps, are never read.
NoFile == [exists |-> FALSE, ids |-> {}]

File(ids) == [exists |-> TRUE, ids |-> ids]

Ids == (Guids \ {NoValue}) \cup Links

---------------------------------------------------------------------------
(* scrape_article (rss_to_kindle.py). *)

\* A plausible slip: the length test lets a result of exactly 200 characters
\* through (>= for >).
ScrapeKeepsShort(page) ==
    IF page.status = "ok" /\ page.len >= MinScrapedLen
    THEN Str(page.len, page.html)
    ELSE Absent

\* None (Absent) on a request or HTTP error, when no container matches, when
\* the container has no block elements, and when the joined markup is not
\* longer than 200 characters; the joined markup otherwise.
scrape_article(page) ==
    IF page.status = "ok" /\ page.len > MinScrapedLen
    THEN Str(page.len, page.html)
    ELSE Absent

\* entry.get('summary', entry.get('description',
\*           entry.get('content', [{}])[0].get('value', '')))
FeedContent(e) ==
    IF e.summary # Absent THEN e.summary
    ELSE IF e.description # Absent THEN e.description
    ELSE IF e.content0 # Absent THEN e.content0
    ELSE Empty

\* "not full_content": None or ''.
Falsy(s) == s.len <= 0

---------------------------------------------------------------------------
(* fetch_new_entries (rss_to_kindle.py): the window variant. *)

\* A plausible slip: the end of the window is included (<= for <).
InWindowClosed(pub_date, start, end) == pub_date >= start /\ pub_date <= end

\* pub_date >= cutoff_start and pub_date < cutoff_end
InWindow(pub_date, start, end) == pub_date >= start /\ pub_date < end

\* now.replace(hour=2, minute=0, second=0, microsecond=0)
AtWindowHour(t) == (t \div Day) * Day + WindowHour

Abort(exc) ==
    /\ pc' = "aborted"
    /\ error' = exc

sanVars == <<html_content, sanitized>>

clockVars == <<now, cutoff_start, cutoff_end>>

loopVars == <<feeds, feed_i, left, read>>

mainVars == <<digest_summary, out_file, html, printed>>

mailVars == <<msg, smtp_log, smtp_failed, sent>>

dedupVars == <<sent_file, sent_items, runs, saved, digests>>

vars ==
    <<pc, error, sanVars, clockVars, loopVars, cur, entries, net, env_missing,
      mainVars, mailVars, dedupVars>>

\* Lines 117-128: feeds.txt is read, the window computed.
OpenFeeds ==
    /\ pc = "start"
    /\ \/ /\ Abort("FileNotFoundError")
          /\ UNCHANGED <<clockVars, feeds>>
       \/ \E n \in 0..MaxFeeds, t \in Nows :
            /\ feeds' = n
            /\ now' = t
            /\ cutoff_start' = AtWindowHour(t) - Day
            /\ cutoff_end' = AtWindowHour(t)
            /\ pc' = "feeds"
            /\ UNCHANGED error
    /\ UNCHANGED <<sanVars, feed_i, left, read, cur, entries, net, env_missing,
                   mainVars, mailVars, dedupVars>>

\* Lines 130-134: feedparser.parse(feed_url).  A feed that cannot be fetched
\* or parsed comes back with no entries.
FetchFeed ==
    /\ pc = "feeds"
    /\ feed_i < feeds
    /\ feed_i' = feed_i + 1
    /\ net' = net \cup {"feed"}
    /\ \E n \in 0..MaxEntries :
        /\ read + n <= MaxTotal
        /\ left' = n
    /\ pc' = "entries"
    /\ UNCHANGED <<error, sanVars, clockVars, feeds, read, cur, entries, env_missing,
                   mainVars, mailVars, dedupVars>>

\* Lines 136-138: the publish time against the window.
Filter(pub_date, has) ==
    LET sel == InWindow(pub_date, cutoff_start, cutoff_end)
    IN /\ cur' = [NoEntry EXCEPT !.pub = pub_date, !.has_pub = has, !.selected = sel]
       /\ pc' = IF sel THEN "selected" ELSE "entries"
       /\ left' = IF sel THEN left ELSE left - 1

\* Lines 135-138: the next entry's publish time (the clock when the feed gives
\* none) against the window.
ReadEntry ==
    /\ pc = "entries"
    /\ left > 0
    /\ \/ \E p \in PubTimes : Filter(p, TRUE)
       \/ \E d \in ClockSkews : Filter(now + d, FALSE)
    /\ read' = read + 1
    /\ UNCHANGED <<error, sanVars, clockVars, feeds, feed_i, entries, net, env_missing,
                   mainVars, mailVars, dedupVars>>

\* Line 139: entry.title is read; a missing attribute raises.
PrintNewArticle ==
    /\ pc = "selected"
    /\ \/ Abort("AttributeError")
       \/ /\ pc' = "scrape"
          /\ UNCHANGED error
    /\ UNCHANGED <<sanVars, clockVars, loopVars, cur, entries, net, env_missing,
                   mainVars, mailVars, dedupVars>>

\* Lines 141-148: entry.link is read, the page scraped, the feed's own content
\* taken when the scrape gave nothing, the result sanitized.
ScrapeEntry ==
    /\ pc = "scrape"
    /\ \/ /\ Abort("AttributeError")
          /\ UNCHANGED <<cur, net>>
       \/ \E l \in Links, page \in Pages,
             s \in {Absent, Str(40, SummaryDoc)},
             d \in {Absent, Str(50, DescriptionDoc)},
             c \in {Absent, Str(60, ContentDoc)} :
            LET e == [cur EXCEPT !.link = l, !.page = page, !.summary = s,
                                 !.description = d, !.content0 = c]
                scraped == scrape_article(page)
                full == IF Falsy(scraped) THEN FeedContent(e) ELSE scraped
            IN /\ cur' = [e EXCEPT
                              !.scraped = scraped,
                              !.full_content = sanitize_html(IF Falsy(full) THEN <<>> ELSE full.html)]
               /\ net' = net \cup {"scrape"}
               /\ pc' = "append"
               /\ UNCHANGED error
    /\ UNCHANGED <<sanVars, clockVars, loopVars, entries, env_missing,
                   mainVars, mailVars, dedupVars>>

\* Lines 150-157: the record is appended; feed.feed.title is read, and raises
\* when the feed has no title (every title is the text "feed title").  The
\* loop is done with the entry.
AppendEntry ==
    /\ pc = "append"
    /\ \/ /\ Abort("AttributeError")
          /\ UNCHANGED <<cur, entries, left>>
       \/ \E g \in Guids :
            /\ cur' = NoEntry
            /\ entries' = Append(entries,
                   [id |-> IF g # NoValue THEN g ELSE cur.link,
                    title |-> "title",
                    link |-> cur.link,
                    content |-> cur.full_content,
                    source |-> "feed title"])
            /\ left' = left - 1
            /\ pc' = "entries"
            /\ UNCHANGED error
    /\ UNCHANGED <<sanVars, clockVars, feeds, feed_i, read, net, env_missing,
                   mainVars, mailVars, dedupVars>>

\* Line 159: the feed's entries are exhausted.
EndFeed ==
    /\ pc = "entries"
    /\ left = 0
    /\ cur' = NoEntry
    /\ pc' = "feeds"
    /\ UNCHANGED <<error, sanVars, clockVars, loopVars, entries, net, env_missing,
                   mainVars, mailVars, dedupVars>>

\* Lines 161-162: return entries.  The locals of the call are gone.
ReturnEntries ==
    /\ pc = "feeds"
    /\ feed_i = feeds
    /\ pc' = "main"
    /\ now' = 0
    /\ cutoff_start' = 0
    /\ cutoff_end' = 0
    /\ feeds' = 0
    /\ feed_i' = 0
    /\ left' = 0
    /\ read' = 0
    /\ UNCHANGED <<error, sanVars, cur, entries, net, env_missing,
                   mainVars, mailVars, dedupVars>>

---------------------------------------------------------------------------
(* create_html (rss_to_kindle.py). *)

Tag(t, a, inner) == <<OpenTok(t, a)>> \o inner \o <<CloseTok(t)>>

\* Lines 188-189: one table-of-contents item per entry.
TocItem(i, entry) ==
    Tag("li", {},
        Tag("a", {<<"href", "#article" \o ToString(i)>>}, <<TextTok(entry.title)>>)
        \o <<TextTok(" - "), TextTok(entry.source)>>)

\* Lines 194-203: one section per entry: the anchored heading, the source,
\* the link and the content, as it is.
Section(i, entry) ==
    Tag("h2", {<<"id", "article" \o ToString(i)>>},
        <<TextTok(ToString(i)), TextTok(". "), TextTok(entry.title)>>)
    \o Tag("p", {}, Tag("strong", {}, <<TextTok("Source:")>>) \o <<TextTok(entry.source)>>)
    \o Tag("p", {}, Tag("strong", {}, <<TextTok("Link:")>>) \o Tag("a", {<<"href", entry.link>>}, <<TextTok(entry.link)>>))
    \o <<OpenTok("hr", {})>> \o entry.content \o <<OpenTok("hr", {})>>

\* Lines 168-206: the head, the title block, the digest summary, the table of
\* contents, then the sections.  Both dates are the text "date".
create_html(es, summary) ==
    <<OpenTok("html", {})>>
    \o Tag("head", {},
           <<OpenTok("meta", {<<"charset", "utf-8">>})>>
           \o Tag("title", {}, <<TextTok("AI Research Digest - "), TextTok("date")>>))
    \o <<OpenTok("body", {})>>
    \o Tag("h1", {}, <<TextTok("AI Research Digest")>>)
    \o Tag("p", {}, Tag("strong", {}, <<TextTok("date")>>))
    \o Tag("p", {}, <<TextTok(ToString(Len(es))), TextTok(" articles")>>)
    \o Tag("h2", {}, <<TextTok("Digest Summary")>>)
    \o Tag("p", {}, <<TextTok(summary)>>)
    \o Tag("h2", {}, <<TextTok("Table of Contents")>>)
    \o Tag("ol", {}, Flatten([i \in 1..Len(es) |-> TocItem(i, es[i])]))
    \o <<OpenTok("hr", {})>>
    \o Flatten([i \in 1..Len(es) |-> Section(i, es[i])])
    \o <<CloseTok("body"), CloseTok("html")>>

---------------------------------------------------------------------------
(* __main__ of rss_to_kindle.py, get_digest_summary, create_epub. *)

fetchRest == <<sanVars, clockVars, loopVars, cur, entries, dedupVars>>

\* Lines 313, 341-342: nothing was selected.
MainNoArticles ==
    /\ pc = "main"
    /\ entries = <<>>
    /\ printed' = printed \cup {"No new articles"}
    /\ pc' = "done"
    /\ UNCHANGED <<error, fetchRest, net, env_missing, digest_summary, out_file, html, mailVars>>

\* Lines 314-316 and 88-114: the key is read with os.environ.get, so that an
\* unset key is None and raises nothing here; any failure of the call is
\* caught.  With no key the library may fail before or after it contacts the
\* service.
GetDigestSummary ==
    /\ pc = "main"
    /\ entries # <<>>
    /\ \E key \in BOOLEAN, called \in BOOLEAN, ok \in BOOLEAN :
        /\ key => called
        /\ ok => (key /\ called)
        /\ env_missing' = IF key THEN env_missing ELSE env_missing \cup {"GEMINI_API_KEY"}
        /\ net' = IF called THEN net \cup {"llm"} ELSE net
        /\ digest_summary' = IF ok THEN "summary" ELSE "Summary unavailable"
    /\ pc' = "epub"
    /\ UNCHANGED <<error, fetchRest, out_file, html, printed, mailVars>>

\* Lines 319 and 208-280: None when ebooklib cannot be imported, the name of
\* the written file otherwise.
CreateEpub ==
    /\ pc = "epub"
    /\ \/ /\ pc' = "html"
          /\ UNCHANGED out_file
       \/ /\ out_file' = "epub"
          /\ pc' = "epub_made"
    /\ UNCHANGED <<error, fetchRest, net, env_missing, digest_summary, html, printed, mailVars>>

\* Lines 321-326: --dry-run keeps the file and sends nothing.
MainEpub ==
    /\ pc = "epub_made"
    /\ \/ /\ printed' = printed \cup {"EPUB file ready to test"}
          /\ pc' = "done"
       \/ /\ pc' = "send"
          /\ UNCHANGED printed
    /\ UNCHANGED <<error, fetchRest, net, env_missing, digest_summary, out_file, html, mailVars>>

\* Lines 328-339: the HTML fallback; digest.html is written on both branches.
MainHtml ==
    /\ pc = "html"
    /\ html' = create_html(entries, digest_summary)
    /\ out_file' = "html"
    /\ \/ /\ printed' = printed \cup {"Generated digest.html"}
          /\ pc' = "done"
       \/ /\ pc' = "send"
          /\ UNCHANGED printed
    /\ UNCHANGED <<error, fetchRest, net, env_missing, digest_summary, mailVars>>

---------------------------------------------------------------------------
(* send_to_kindle (rss_to_kindle.py). *)

\* os.environ[name] for each name of `names`, in order: the first unset one
\* raises KeyError.
KeyError(name) ==
    /\ Abort("KeyError")
    /\ env_missing' = env_missing \cup {name}

\* Lines 284-288: the message and its headers.
PrepareEmail ==
    /\ pc = "send"
    /\ \/ /\ \E name \in {"KINDLE_EMAIL", "SMTP_USER"} : KeyError(name)
          /\ UNCHANGED msg
       \/ /\ msg' = [attached |-> FALSE, file |-> ""]
          /\ pc' = "attach"
          /\ UNCHANGED <<error, env_missing>>
    /\ UNCHANGED <<fetchRest, net, mainVars, smtp_log, smtp_failed, sent>>

\* Lines 290-298: the file is read and attached.
AttachFile ==
    /\ pc = "attach"
    /\ msg' = [attached |-> TRUE, file |-> out_file]
    /\ pc' = "connect"
    /\ UNCHANGED <<error, fetchRest, net, env_missing, mainVars, smtp_log, smtp_failed, sent>>

SmtpFails(op) ==
    /\ smtp_failed' = op
    /\ Abort("SMTPException")

\* Lines 300-301: host and port are read, the connection opened.
Connect ==
    /\ pc = "connect"
    /\ \/ /\ \E name \in {"SMTP_HOST", "SMTP_PORT"} : KeyError(name)
          /\ UNCHANGED <<net, smtp_log, smtp_failed>>
       \/ /\ net' = net \cup {"smtp"}
          /\ smtp_log' = Append(smtp_log, "connect")
          /\ UNCHANGED env_missing
          /\ \/ SmtpFails("connect")
             \/ /\ pc' = "starttls"
                /\ UNCHANGED <<error, smtp_failed>>
    /\ UNCHANGED <<fetchRest, mainVars, msg, sent>>

\* Line 302.
StartTls ==
    /\ pc = "starttls"
    /\ smtp_log' = Append(smtp_log, "starttls")
    /\ \/ SmtpFails("starttls")
       \/ /\ pc' = "login"
          /\ UNCHANGED <<error, smtp_failed>>
    /\ UNCHANGED <<fetchRest, net, env_missing, mainVars, msg, sent>>

\* A plausible slip: a failed login is swallowed and the send goes ahead.
LoginIgnoresFailure ==
    /\ pc = "login"
    /\ smtp_log' = Append(smtp_log, "login")
    /\ pc' = "send_message"
    /\ \/ smtp_failed' = "login"
       \/ UNCHANGED smtp_failed
    /\ UNCHANGED <<error, fetchRest, net, env_missing, mainVars, msg, sent>>

\* Lines 303-304: the password is read (the user name was read at line 286),
\* then server.login.
Login ==
    /\ pc = "login"
    /\ \/ /\ KeyError("SMTP_PASSWORD")
          /\ UNCHANGED <<smtp_log, smtp_failed>>
       \/ /\ smtp_log' = Append(smtp_log, "login")
          /\ UNCHANGED env_missing
          /\ \/ SmtpFails("login")
             \/ /\ pc' = "send_message"
                /\ UNCHANGED <<error, smtp_failed>>
    /\ UNCHANGED <<fetchRest, net, mainVars, msg, sent>>

\* Lines 305-306: server.send_message(msg).
SendMessage ==
    /\ pc = "send_message"
    /\ smtp_log' = Append(smtp_log, "send_message")
    /\ \/ /\ SmtpFails("send_message")
          /\ UNCHANGED sent
       \/ /\ sent' = Append(sent, msg)
          /\ pc' = "sent"
          /\ UNCHANGED <<error, smtp_failed>>
    /\ UNCHANGED <<fetchRest, net, env_missing, mainVars, msg>>

\* Lines 307 and 327/340: the two success lines.
ReportSent ==
    /\ pc = "sent"
    /\ printed' = printed \cup {"Email sent successfully!", "Sent to Kindle"}
    /\ pc' = "done"
    /\ UNCHANGED <<error, fetchRest, net, env_missing, digest_summary, out_file, html, mailVars>>

---------------------------------------------------------------------------
(* The run of rss_to_kindle.py. *)

IdleSanitize ==
    /\ html_content = <<>>
    /\ sanitized = <<>>

IdleDedup ==
    /\ sent_file = NoFile
    /\ sent_items = {}
    /\ runs = 0
    /\ saved = FALSE
    /\ digests = <<>>

IdleMain ==
    /\ net = {}
    /\ env_missing = {}
    /\ digest_summary = ""
    /\ out_file = ""
    /\ html = <<>>
    /\ msg = NoMsg
    /\ smtp_log = <<>>
    /\ smtp_failed = ""
    /\ sent = <<>>
    /\ printed = {}

IdleFetch ==
    /\ error = ""
    /\ now = 0
    /\ cutoff_start = 0
    /\ cutoff_end = 0
    /\ feeds = 0
    /\ feed_i = 0
    /\ left = 0
    /\ read = 0
    /\ cur = NoEntry
    /\ entries = <<>>

Init ==
    /\ pc = "start"
    /\ IdleFetch
    /\ IdleMain
    /\ IdleSanitize
    /\ IdleDedup

Next ==
    \/ OpenFeeds
    \/ FetchFeed
    \/ ReadEntry
    \/ PrintNewArticle
    \/ ScrapeEntry
    \/ AppendEntry
    \/ EndFeed
    \/ ReturnEntries
    \/ MainNoArticles
    \/ GetDigestSummary
    \/ CreateEpub
    \/ MainEpub
    \/ MainHtml
    \/ PrepareEmail
    \/ AttachFile
    \/ Connect
    \/ StartTls
    \/ Login
    \/ SendMessage
    \/ ReportSent

Spec == Init /\ [][Next]_vars

---------------------------------------------------------------------------
(* sanitize_html on its own, over InputForests. *)

InitSanitize ==
    /\ pc = "sanitize"
    /\ html_content \in InputForests
    /\ sanitized = <<>>
    /\ IdleFetch
    /\ IdleMain
    /\ IdleDedup

CallSanitize ==
    /\ pc = "sanitize"
    /\ sanitized' = sanitize_html(html_content)
    /\ pc' = "sanitized"
    /\ UNCHANGED <<error, html_content, clockVars, loopVars, cur, entries, net, env_missing,
                   mainVars, mailVars, dedupVars>>

SpecSanitize == InitSanitize /\ [][CallSanitize]_vars

---------------------------------------------------------------------------
(* create_html on its own, over lists of the entries fetch_new_entries can *)
(* produce.                                                                *)

Contents ==
    {sanitize_html(d) : d \in {<<>>, ScrapedDoc, SummaryDoc, DescriptionDoc, ContentDoc}}

HtmlEntries ==
    [id : Ids, title : {"title"}, link : Links, content : Contents,
     source : {"feed title"}]

InitHtml ==
    /\ pc = "html_in"
    /\ entries \in UNION {[1..n -> HtmlEntries] : n \in 0..MaxHtmlEntries}
    /\ digest_summary \in {"summary", "Summary unavailable"}
    /\ error = ""
    /\ now = 0
    /\ cutoff_start = 0
    /\ cutoff_end = 0
    /\ feeds = 0
    /\ feed_i = 0
    /\ left = 0
    /\ read = 0
    /\ cur = NoEntry
    /\ net = {}
    /\ env_missing = {}
    /\ out_file = ""
    /\ html = <<>>
    /\ msg = NoMsg
    /\ smtp_log = <<>>
    /\ smtp_failed = ""
    /\ sent = <<>>
    /\ printed = {}
    /\ IdleSanitize
    /\ IdleDedup

CallCreateHtml ==
    /\ pc = "html_in"
    /\ html' = create_html(entries, digest_summary)
    /\ pc' = "html_done"
    /\ UNCHANGED <<error, fetchRest, net, env_missing, digest_summary, out_file, printed, mailVars>>

SpecHtml == InitHtml /\ [][CallCreateHtml]_vars

---------------------------------------------------------------------------
(* test_local.py: the dedup variant, run after run. *)

\* A plausible slip: the store is never consulted.
AlreadySentNever(entry_id, store) == FALSE

\* Line 101: entry_id in sent_items
AlreadySent(entry_id, store) == entry_id \in store

\* load_sent_items, lines 9-13: {} when the file does not exist.
load_sent_items == IF sent_file.exists THEN sent_file.ids ELSE {}

tlRest == <<sanVars, env_missing, digest_summary, out_file, html, mailVars>>

\* Lines 173 and 86-92: a run starts; feeds.txt is read, the store loaded, the
\* cutoff computed.  The clock does not run backwards from run to run.
TL_StartRun ==
    /\ pc \in {"tl_start", "tl_done", "aborted"}
    /\ runs < MaxRuns
    /\ runs' = runs + 1
    /\ saved' = FALSE
    /\ entries' = <<>>
    /\ cur' = NoEntry
    /\ feed_i' = 0
    /\ left' = 0
    /\ read' = 0
    /\ \/ /\ Abort("FileNotFoundError")
          /\ UNCHANGED <<now, cutoff_start, feeds, sent_items>>
       \/ \E n \in 0..MaxFeeds, t \in Nows :
            /\ t >= now
            /\ feeds' = n
            /\ sent_items' = load_sent_items
            /\ now' = t
            /\ cutoff_start' = t - Day
            /\ pc' = "tl_feeds"
            /\ error' = ""
    /\ UNCHANGED <<cutoff_end, net, printed, sent_file, digests, tlRest>>

\* Lines 94-97: feedparser.parse(feed_url).
TL_FetchFeed ==
    /\ pc = "tl_feeds"
    /\ feed_i < feeds
    /\ feed_i' = feed_i + 1
    /\ net' = net \cup {"feed"}
    /\ \E n \in 0..MaxEntries :
        /\ read + n <= MaxTotal
        /\ left' = n
    /\ pc' = "tl_entries"
    /\ UNCHANGED <<error, clockVars, feeds, read, cur, entries, printed, dedupVars, tlRest>>

\* Lines 100-108 for an entry with a link: the id (the link when the feed
\* gives none) against the store, the publish time (the clock when the feed
\* gives none) against the cutoff, then entry.title for the "New article"
\* line.
TL_Filter(l, g, pub_date, has, has_title) ==
    LET entry_id == IF g # NoValue THEN g ELSE l
        skip == AlreadySent(entry_id, sent_items) \/ pub_date < cutoff_start
    IN /\ cur' = [NoEntry EXCEPT !.link = l, !.id = entry_id, !.pub = pub_date,
                                 !.has_pub = has, !.selected = ~skip]
       /\ IF skip
          THEN /\ pc' = "tl_entries"
               /\ left' = left - 1
               /\ UNCHANGED error
          ELSE /\ left' = left
               /\ IF has_title
                  THEN pc' = "tl_selected" /\ UNCHANGED error
                  ELSE Abort("AttributeError")

\* Lines 99-108.  entry.get('id', entry.link) reads entry.link whether or not
\* the entry has an id, and raises when it has no link.
TL_ReadEntry ==
    /\ pc = "tl_entries"
    /\ left > 0
    /\ read' = read + 1
    /\ \/ /\ Abort("AttributeError")
          /\ UNCHANGED <<cur, left>>
       \/ \E l \in Links, g \in Guids, has_title \in BOOLEAN :
            \/ \E p \in PubTimes : TL_Filter(l, g, p, TRUE, has_title)
            \/ \E d \in ClockSkews : TL_Filter(l, g, now + d, FALSE, has_title)
    /\ UNCHANGED <<clockVars, feeds, feed_i, entries, net, printed, dedupVars, tlRest>>

\* Line 111: scrape_article(entry.link).  test_local.py defines no
\* scrape_article and imports none (its body follows the return of
\* get_summary, lines 39-83), so the call raises NameError; lines 112-129 are
\* never reached.
TL_ScrapeEntry ==
    /\ pc = "tl_selected"
    /\ Abort("NameError")
    /\ UNCHANGED <<clockVars, loopVars, cur, entries, net, printed, dedupVars, tlRest>>

\* The feed's entries are exhausted.
TL_EndFeed ==
    /\ pc = "tl_entries"
    /\ left = 0
    /\ cur' = NoEntry
    /\ pc' = "tl_feeds"
    /\ UNCHANGED <<error, clockVars, loopVars, entries, net, printed, dedupVars, tlRest>>

\* Lines 131-133 and 15-17: save_sent_items rewrites the file, then the
\* entries are returned.
TL_Return ==
    /\ pc = "tl_feeds"
    /\ feed_i = feeds
    /\ sent_file' = File(sent_items)
    /\ saved' = TRUE
    /\ pc' = "tl_main"
    /\ UNCHANGED <<error, clockVars, loopVars, cur, entries, net, printed,
                   sent_items, runs, digests, tlRest>>

\* Lines 173-185: the digest is written when there are entries.
TL_Main ==
    /\ pc = "tl_main"
    /\ digests' = IF entries # <<>>
                  THEN Append(digests, [i \in 1..Len(entries) |-> entries[i].id])
                  ELSE digests
    /\ printed' = IF entries # <<>> THEN printed \cup {"Report saved"}
                                    ELSE printed \cup {"No new articles"}
    /\ pc' = "tl_done"
    /\ UNCHANGED <<error, clockVars, loopVars, cur, entries, net,
                   sent_file, sent_items, runs, saved, tlRest>>

\* sent_items.json is a file of the working directory: the first run may find
\* none, or one that holds any ids.
InitDedup ==
    /\ pc = "tl_start"
    /\ sent_file \in {NoFile} \cup {File(ids) : ids \in SUBSET Ids}
    /\ sent_items = {}
    /\ runs = 0
    /\ saved = FALSE
    /\ digests = <<>>
    /\ IdleFetch
    /\ IdleMain
    /\ IdleSanitize

NextDedup ==
    \/ TL_StartRun
    \/ TL_FetchFeed
    \/ TL_ReadEntry
    \/ TL_ScrapeEntry
    \/ TL_EndFeed
    \/ TL_Return
    \/ TL_Main

SpecDedup == InitDedup /\ [][NextDedup]_vars

---------------------------------------------------------------------------
(* Claims about rss_to_kindle.py, checked under Spec. *)

\* An entry has been through the window test and the loop still holds it.
Filtered == pc \in {"entries", "selected", "scrape", "append"} /\ cur # NoEntry

\* C1: in the window variant an entry is selected if and only if
\* cutoffStart <= publishedAt < cutoffEnd, where cutoffEnd is the date of
\* `now` at 02:00 UTC and cutoffStart is 24 hours before it; for
\* now = 2024-01-02T10:00:00Z an entry of 2024-01-01T01:59:00Z is excluded
\* and one of 2024-01-01T03:00:00Z is included.
C1_WindowSelection ==
    Filtered =>
        LET cutoffEnd == (now \div 86400) * 86400 + 2 * 3600
            cutoffStart == cutoffEnd - 24 * 3600
        IN /\ cur.selected <=> (cutoffStart <= cur.pub /\ cur.pub < cutoffEnd)
           /\ cur.selected <=> pc # "entries"
           /\ (now = 86400 + 10 * 3600 /\ cur.pub = 3600 + 59 * 60) => ~cur.selected
           /\ (now = 86400 + 10 * 3600 /\ cur.pub = 3 * 3600) => cur.selected

\* C1's case: at now = 2024-01-02T10:00:00Z one entry has been included and
\* the entry of 2024-01-01T01:59:00Z has just been skipped.
C1_Witness ==
    /\ pc = "entries"
    /\ now = 86400 + 10 * 3600
    /\ cur.has_pub
    /\ cur.pub = 3600 + 59 * 60
    /\ ~cur.selected
    /\ Len(entries) = 1

\* C2: a feed that fails to fetch or parse, or that yields malformed data (no
\* feed title, an entry without title or link), is skipped and does not abort
\* the run.  Stated of the code: the run never ends in the AttributeError
\* that reading a missing field raises.
C2_MalformedFeedSkipped == ~(pc = "aborted" /\ error = "AttributeError")

\* C3: a run in which a required environment variable or feeds.txt is
\* missing aborts without having performed any network activity.
C3_ConfigErrorsBeforeNetwork ==
    (env_missing # {} \/ error = "FileNotFoundError") => (pc = "aborted" /\ net = {})

\* C6: the list fetch_new_entries builds holds no two entries with the same
\* id.
C6_NoDuplicateIds ==
    \A i, j \in 1..Len(entries) : i # j => entries[i].id # entries[j].id

SuccessLines == {"Email sent successfully!", "Sent to Kindle"}

IsPrefix(s, t) == Len(s) <= Len(t) /\ \A i \in 1..Len(s) : s[i] = t[i]

\* C7: the attachment is on the message before the SMTP session opens;
\* STARTTLS, then login, precede send_message; nothing is tried twice; when
\* the connection, STARTTLS, login or the send fails, the run ends in failure
\* with no success line, and for the first three with no message sent at all;
\* no message is ever sent without its attachment.
C7_NoPartialSend ==
    /\ \A i \in 1..Len(sent) : sent[i].attached /\ sent[i].file \in {"epub", "html"}
    /\ smtp_log # <<>> => msg.attached
    /\ IsPrefix(smtp_log, <<"connect", "starttls", "login", "send_message">>)
    /\ Len(sent) <= 1
    /\ smtp_failed # "" => (pc = "aborted" /\ printed \cap SuccessLines = {})
    /\ smtp_failed \in {"connect", "starttls", "login"} => sent = <<>>

\* C7's case: the login was refused after the attachment was attached.
C7_Witness ==
    /\ smtp_failed = "login"
    /\ pc = "aborted"
    /\ msg.attached
    /\ sent = <<>>

\* C8: when scraping fails, finds no container, or yields markup of at most
\* 200 characters, the content emitted for the entry is the sanitized feed
\* content (summary, else description, else first content value); a scrape
\* result of more than 200 characters supersedes it.
C8_ShortScrapeFallsBack ==
    [][(pc = "append" /\ pc' = "entries") =>
        LET e == entries'[Len(entries')]
            feed_content ==
                IF cur.summary.len >= 0 THEN cur.summary.html
                ELSE IF cur.description.len >= 0 THEN cur.description.html
                ELSE IF cur.content0.len >= 0 THEN cur.content0.html
                ELSE <<>>
        IN /\ Len(entries') = Len(entries) + 1
           /\ IF cur.page.status = "ok" /\ cur.page.len > 200
              THEN e.content = sanitize_html(cur.page.html)
              ELSE e.content = sanitize_html(feed_content)]_vars

\* C8's case: a scrape of exactly 200 characters, with a feed summary, gave
\* the sanitized summary.
C8_Witness ==
    /\ pc = "append"
    /\ cur.page.status = "ok"
    /\ cur.page.len = 200
    /\ cur.summary # Absent
    /\ cur.full_content = <<OpenTok("p", {}), TextTok("summary"), CloseTok("p")>>

---------------------------------------------------------------------------
(* Claims about sanitize_html, checked under SpecSanitize. *)

RemovedWithContents == {"script", "style", "svg", "button", "form", "iframe", "noscript"}

\* The nodes of a forest that lie in no element of RemovedWithContents (and
\* are none themselves), in document order, each without its children.
RECURSIVE OutsideRemoved(_)
OutsideRemoved(forest) ==
    Flatten([i \in 1..Len(forest) |->
        LET n == forest[i] IN
        IF n.tag \in RemovedWithContents THEN <<>>
        ELSE <<[tag |-> n.tag, text |-> n.text]>> \o OutsideRemoved(n.kids)])

TagsOf(seq) == [i \in 1..Len(seq) |-> seq[i].tag]

TextsOf(seq) == [i \in 1..Len(seq) |-> seq[i].text]

\* C9: the output of sanitize_html holds nothing of a script, style, svg,
\* button, form, iframe or noscript element (no such tag, and none of the
\* text or elements below one, however deep and under whatever wrapper),
\* while everything else is retained in its original order: every text, and
\* every allowed element; only the tags of other elements go.
C9_SanitizerSafety ==
    pc = "sanitized" =>
        LET outside == OutsideRemoved(html_content) IN
        /\ \A i \in 1..Len(sanitized) : sanitized[i].tag \notin RemovedWithContents
        /\ TextsOf(SelectSeq(sanitized, LAMBDA t : t.k = "text"))
             = TextsOf(SelectSeq(outside, LAMBDA n : n.tag = "#text"))
        /\ TagsOf(SelectSeq(sanitized, LAMBDA t : t.k = "open"))
             = TagsOf(SelectSeq(outside, LAMBDA n : n.tag \in allowed_tags))

\* C9's case: a form with text in it, nested in an unknown wrapper that has
\* another child: the form's text is gone, the wrapper's other child stays.
C9_Witness ==
    /\ pc = "sanitized"
    /\ html_content =
           <<Elem("section", {}, <<Elem("form", {}, <<TextNode("a")>>), TextNode("b")>>)>>
    /\ sanitized = <<TextTok("b")>>

---------------------------------------------------------------------------
(* Claims about test_local.py, checked under SpecDedup. *)

\* The ids of all digests so far, one after the other.
DigestIds == Flatten(digests)

\* C4: with dedup by id an entry id is included in at most one digest, and at
\* most once in it; an id that sent_items.json held at the start of the run
\* (the file is rewritten only at the end of the run), or that was selected
\* earlier in the run, is never selected, whatever its publish time.
C4_AtMostOneDigest ==
    /\ \A i, j \in 1..Len(DigestIds) : i # j => DigestIds[i] # DigestIds[j]
    /\ pc = "tl_selected" =>
          /\ cur.selected
          /\ cur.id \notin sent_file.ids
          /\ \A i \in 1..Len(entries) : entries[i].id # cur.id

\* C4's case: an entry published within the cutoff has just been skipped
\* because the file held its id.
C4_Witness ==
    /\ pc = "tl_entries"
    /\ cur # NoEntry
    /\ cur.id \in sent_file.ids
    /\ cur.pub >= now - 24 * 3600
    /\ ~cur.selected

\* A run has ended, and not for a missing feeds.txt or a malformed feed.
TL_RunEnded ==
    /\ runs >= 1
    /\ pc \in {"tl_done", "aborted"}
    /\ error \notin {"FileNotFoundError", "AttributeError"}

\* C5: every run, one that selected an entry included, reaches
\* save_sent_items, and the file then holds every id stored before the run
\* and every id selected in it.
C5_StorePersisted ==
    TL_RunEnded =>
        /\ saved
        /\ sent_items \subseteq sent_file.ids
        /\ cur.selected => cur.id \in sent_file.ids

---------------------------------------------------------------------------
(* Claims about create_html, checked under SpecHtml. *)

\* The value of attribute `name` of every open tag that has one, in
\* document order.
AttrValues(doc, name) ==
    LET with == SelectSeq(doc, LAMBDA t : t.k = "open" /\ \E a \in t.attrs : a[1] = name)
    IN [i \in 1..Len(with) |-> (CHOOSE a \in with[i].attrs : a[1] = name)[2]]

\* The tokens of the table of contents: from the first <ol> to the first
\* </ol> (titles are text, so the list holds no other list).
TocOf(doc) ==
    LET first == CHOOSE i \in 1..Len(doc) :
                    /\ doc[i].k = "open" /\ doc[i].tag = "ol"
                    /\ \A j \in 1..(i - 1) : ~(doc[j].k = "open" /\ doc[j].tag = "ol")
        last == CHOOSE i \in first..Len(doc) :
                    /\ doc[i].k = "close" /\ doc[i].tag = "ol"
                    /\ \A j \in first..(i - 1) : ~(doc[j].k = "close" /\ doc[j].tag = "ol")
    IN SubSeq(doc, first, last)

\* C10: for N entries the document has exactly N table-of-contents items and
\* exactly N anchor-carrying sections, in input order, the i-th item's link
\* targets the i-th section (article<i>), and every id is unique within the
\* whole document, the entries' own sanitized content included.
C10_TocAndAnchors ==
    pc = "html_done" =>
        LET n == Len(entries)
            anchors == [i \in 1..n |-> "article" \o ToString(i)]
            ids == AttrValues(html, "id")
        IN /\ Len(SelectSeq(TocOf(html), LAMBDA t : t.k = "open" /\ t.tag = "li")) = n
           /\ AttrValues(TocOf(html), "href") = [i \in 1..n |-> "#" \o anchors[i]]
           /\ SelectSeq(ids, LAMBDA v : \E i \in 1..n : v = anchors[i]) = anchors
           /\ \A i, j \in 1..Len(ids) : i # j => ids[i] # ids[j]

---------------------------------------------------------------------------
(* The entry whose feed gives no publish time. *)

\* The dedup variant's half of C11, under SpecDedup: an entry without a
\* publish time is given the clock, which is never before the cutoff of one
\* day ago, so it is selected exactly when its id is not in the store.
TL_MissingTimestampIncluded ==
    (pc \in {"tl_entries", "tl_selected", "aborted"} /\ cur # NoEntry /\ ~cur.has_pub) =>
        /\ cur.pub >= now
        /\ cur.selected <=> cur.id \notin sent_items

\* C11: an entry whose feed omits the publish timestamp is given the current
\* wall-clock time as publishedAt and is then always selected, whatever the
\* time of day of the run.  Stated of the window variant: every entry that
\* has been through the window test without a publish time of its own
\* carries the clock's reading and is selected.
C11_MissingTimestampIncluded ==
    (Filtered /\ ~cur.has_pub) =>
        /\ cur.pub >= now
        /\ cur.selected

====
